---- MODULE Spec2Model ----
(***************************************************************************)
(* Model of src/parse_statements.py: the tokenizer (get_page_lines), the   *)
(* amount and row decoders (parse_amount, parse_operation_line) and the    *)
(* section assembler (RawStatement.parse_lines).                           *)
(*                                                                         *)
(* A Python str is the sequence of its Unicode code points (ord of each    *)
(* character), so that the character classes of str, re, int and float can *)
(* be told apart as Python tells them apart.  Python lists are sequences.  *)
(* Python indices are 0-based: parsed_lines[i] of the source is            *)
(* parsed_lines[i+1] here, line[k] of the source is line[k+1].             *)
(***************************************************************************)
EXTENDS Integers, Sequences, FiniteSets, TLC

VARIABLES
    pc,             \* position in the modelled call
    pages,          \* RawStatement.pages: sequence of page strings
    creation_date,  \* RawStatement.creation_date: [year, month]
    parsed_lines,   \* local of parse_lines / result of get_page_lines
    i,              \* local i of parse_lines (0-based, as in the source)
    holders,        \* local holders of parse_lines
    row,            \* argument `line` of a direct parse_operation_line call
    ret             \* what the call returned, or the exception it raised

vars == <<pc, pages, creation_date, parsed_lines, i, holders, row, ret>>

(***************************************************************************)
(* Bounds of the model.                                                    *)
(***************************************************************************)
\* Longest page given to the tokenizer in SpecTok.
MaxLen == 6
\* Most lines of a document given to parse_lines in Spec.
MaxLines == 3

(***************************************************************************)
(* Text.  S("abc") is the Python str 'abc'; characters outside printable   *)
(* ASCII are written by their code points.                                 *)
(***************************************************************************)
\* the printable ASCII characters chr(32) .. chr(95) and chr(97) .. chr(126),
\* in order
AsciiLow ==
    " !\"#$%&'()*+,-./0123456789:;<=>?@ABCDEFGHIJKLMNOPQRSTUVWXYZ[\\]^_"
AsciiHigh == "abcdefghijklmnopqrstuvwxyz{|}~"

\* position of the one-character string ch in the string t, 0 when absent
Position(ch, t) ==
    IF \E k \in 1..Len(t) : SubSeq(t, k, k) = ch
    THEN CHOOSE k \in 1..Len(t) : SubSeq(t, k, k) = ch
    ELSE 0

\* ord(ch) of a one-character printable ASCII string
Ord(ch) ==
    IF Position(ch, AsciiLow) > 0 THEN 31 + Position(ch, AsciiLow)
    ELSE 96 + Position(ch, AsciiHigh)

RECURSIVE StrFrom(_, _)
\* the characters of t from position k on
StrFrom(t, k) ==
    IF k > Len(t) THEN <<>>
    ELSE <<Ord(SubSeq(t, k, k))>> \o StrFrom(t, k + 1)

\* the str written t
S(t) == StrFrom(t, 1)

\* the characters the source names
Space == Ord(" ")
Pipe == Ord("|")
Comma == Ord(",")
Hyphen == Ord("-")
Plus == Ord("+")
Dot == Ord(".")
Underscore == Ord("_")
Zero == Ord("0")
Nine == Ord("9")
UpperA == Ord("A")
UpperZ == Ord("Z")
LowerA == Ord("a")
LowerZ == Ord("z")
LowerE == Ord("e")
UpperE == Ord("E")
QuestionMark == Ord("?")
LF == 10
CR == 13

(***************************************************************************)
(* Character classes of Python's str and re (Unicode 14, CPython 3.11),    *)
(* as tables of code point ranges <<first, last>>.                         *)
(***************************************************************************)
\* str.isspace(): what str.lstrip() removes
SpaceRanges ==
    <<<<9, 13>>, <<28, 32>>, <<133, 133>>, <<160, 160>>, <<5760, 5760>>,
     <<8192, 8202>>, <<8232, 8233>>, <<8239, 8239>>, <<8287, 8287>>,
     <<12288, 12288>>>>

\* str.isdecimal(): \d of re, the digits of int() and float().  Every range
\* is a run of the ten digits 0..9 in order, or several such runs.
DecimalRanges ==
    <<<<48, 57>>, <<1632, 1641>>, <<1776, 1785>>, <<1984, 1993>>,
     <<2406, 2415>>, <<2534, 2543>>, <<2662, 2671>>, <<2790, 2799>>,
     <<2918, 2927>>, <<3046, 3055>>, <<3174, 3183>>, <<3302, 3311>>,
     <<3430, 3439>>, <<3558, 3567>>, <<3664, 3673>>, <<3792, 3801>>,
     <<3872, 3881>>, <<4160, 4169>>, <<4240, 4249>>, <<6112, 6121>>,
     <<6160, 6169>>, <<6470, 6479>>, <<6608, 6617>>, <<6784, 6793>>,
     <<6800, 6809>>, <<6992, 7001>>, <<7088, 7097>>, <<7232, 7241>>,
     <<7248, 7257>>, <<42528, 42537>>, <<43216, 43225>>, <<43264, 43273>>,
     <<43472, 43481>>, <<43504, 43513>>, <<43600, 43609>>, <<44016, 44025>>,
     <<65296, 65305>>, <<66720, 66729>>, <<68912, 68921>>, <<69734, 69743>>,
     <<69872, 69881>>, <<69942, 69951>>, <<70096, 70105>>, <<70384, 70393>>,
     <<70736, 70745>>, <<70864, 70873>>, <<71248, 71257>>, <<71360, 71369>>,
     <<71472, 71481>>, <<71904, 71913>>, <<72016, 72025>>, <<72784, 72793>>,
     <<73040, 73049>>, <<73120, 73129>>, <<92768, 92777>>, <<92864, 92873>>,
     <<93008, 93017>>, <<120782, 120831>>, <<123200, 123209>>,
     <<123632, 123641>>, <<125264, 125273>>, <<130032, 130041>>>>

\* \w of re: str.isalnum() or "_"
WordRanges ==
    <<<<48, 57>>, <<65, 90>>, <<95, 95>>, <<97, 122>>, <<170, 170>>,
     <<178, 179>>, <<181, 181>>, <<185, 186>>, <<188, 190>>, <<192, 214>>,
     <<216, 246>>, <<248, 705>>, <<710, 721>>, <<736, 740>>, <<748, 748>>,
     <<750, 750>>, <<880, 884>>, <<886, 887>>, <<890, 893>>, <<895, 895>>,
     <<902, 902>>, <<904, 906>>, <<908, 908>>, <<910, 929>>, <<931, 1013>>,
     <<1015, 1153>>, <<1162, 1327>>, <<1329, 1366>>, <<1369, 1369>>,
     <<1376, 1416>>, <<1488, 1514>>, <<1519, 1522>>, <<1568, 1610>>,
     <<1632, 1641>>, <<1646, 1647>>, <<1649, 1747>>, <<1749, 1749>>,
     <<1765, 1766>>, <<1774, 1788>>, <<1791, 1791>>, <<1808, 1808>>,
     <<1810, 1839>>, <<1869, 1957>>, <<1969, 1969>>, <<1984, 2026>>,
     <<2036, 2037>>, <<2042, 2042>>, <<2048, 2069>>, <<2074, 2074>>,
     <<2084, 2084>>, <<2088, 2088>>, <<2112, 2136>>, <<2144, 2154>>,
     <<2160, 2183>>, <<2185, 2190>>, <<2208, 2249>>, <<2308, 2361>>,
     <<2365, 2365>>, <<2384, 2384>>, <<2392, 2401>>, <<2406, 2415>>,
     <<2417, 2432>>, <<2437, 2444>>, <<2447, 2448>>, <<2451, 2472>>,
     <<2474, 2480>>, <<2482, 2482>>, <<2486, 2489>>, <<2493, 2493>>,
     <<2510, 2510>>, <<2524, 2525>>, <<2527, 2529>>, <<2534, 2545>>,
     <<2548, 2553>>, <<2556, 2556>>, <<2565, 2570>>, <<2575, 2576>>,
     <<2579, 2600>>, <<2602, 2608>>, <<2610, 2611>>, <<2613, 2614>>,
     <<2616, 2617>>, <<2649, 2652>>, <<2654, 2654>>, <<2662, 2671>>,
     <<2674, 2676>>, <<2693, 2701>>, <<2703, 2705>>, <<2707, 2728>>,
     <<2730, 2736>>, <<2738, 2739>>, <<2741, 2745>>, <<2749, 2749>>,
     <<2768, 2768>>, <<2784, 2785>>, <<2790, 2799>>, <<2809, 2809>>,
     <<2821, 2828>>, <<2831, 2832>>, <<2835, 2856>>, <<2858, 2864>>,
     <<2866, 2867>>, <<2869, 2873>>, <<2877, 2877>>, <<2908, 2909>>,
     <<2911, 2913>>, <<2918, 2927>>, <<2929, 2935>>, <<2947, 2947>>,
     <<2949, 2954>>, <<2958, 2960>>, <<2962, 2965>>, <<2969, 2970>>,
     <<2972, 2972>>, <<2974, 2975>>, <<2979, 2980>>, <<2984, 2986>>,
     <<2990, 3001>>, <<3024, 3024>>, <<3046, 3058>>, <<3077, 3084>>,
     <<3086, 3088>>, <<3090, 3112>>, <<3114, 3129>>, <<3133, 3133>>,
     <<3160, 3162>>, <<3165, 3165>>, <<3168, 3169>>, <<3174, 3183>>,
     <<3192, 3198>>, <<3200, 3200>>, <<3205, 3212>>, <<3214, 3216>>,
     <<3218, 3240>>, <<3242, 3251>>, <<3253, 3257>>, <<3261, 3261>>,
     <<3293, 3294>>, <<3296, 3297>>, <<3302, 3311>>, <<3313, 3314>>,
     <<3332, 3340>>, <<3342, 3344>>, <<3346, 3386>>, <<3389, 3389>>,
     <<3406, 3406>>, <<3412, 3414>>, <<3416, 3425>>, <<3430, 3448>>,
     <<3450, 3455>>, <<3461, 3478>>, <<3482, 3505>>, <<3507, 3515>>,
     <<3517, 3517>>, <<3520, 3526>>, <<3558, 3567>>, <<3585, 3632>>,
     <<3634, 3635>>, <<3648, 3654>>, <<3664, 3673>>, <<3713, 3714>>,
     <<3716, 3716>>, <<3718, 3722>>, <<3724, 3747>>, <<3749, 3749>>,
     <<3751, 3760>>, <<3762, 3763>>, <<3773, 3773>>, <<3776, 3780>>,
     <<3782, 3782>>, <<3792, 3801>>, <<3804, 3807>>, <<3840, 3840>>,
     <<3872, 3891>>, <<3904, 3911>>, <<3913, 3948>>, <<3976, 3980>>,
     <<4096, 4138>>, <<4159, 4169>>, <<4176, 4181>>, <<4186, 4189>>,
     <<4193, 4193>>, <<4197, 4198>>, <<4206, 4208>>, <<4213, 4225>>,
     <<4238, 4238>>, <<4240, 4249>>, <<4256, 4293>>, <<4295, 4295>>,
     <<4301, 4301>>, <<4304, 4346>>, <<4348, 4680>>, <<4682, 4685>>,
     <<4688, 4694>>, <<4696, 4696>>, <<4698, 4701>>, <<4704, 4744>>,
     <<4746, 4749>>, <<4752, 4784>>, <<4786, 4789>>, <<4792, 4798>>,
     <<4800, 4800>>, <<4802, 4805>>, <<4808, 4822>>, <<4824, 4880>>,
     <<4882, 4885>>, <<4888, 4954>>, <<4969, 4988>>, <<4992, 5007>>,
     <<5024, 5109>>, <<5112, 5117>>, <<5121, 5740>>, <<5743, 5759>>,
     <<5761, 5786>>, <<5792, 5866>>, <<5870, 5880>>, <<5888, 5905>>,
     <<5919, 5937>>, <<5952, 5969>>, <<5984, 5996>>, <<5998, 6000>>,
     <<6016, 6067>>, <<6103, 6103>>, <<6108, 6108>>, <<6112, 6121>>,
     <<6128, 6137>>, <<6160, 6169>>, <<6176, 6264>>, <<6272, 6276>>,
     <<6279, 6312>>, <<6314, 6314>>, <<6320, 6389>>, <<6400, 6430>>,
     <<6470, 6509>>, <<6512, 6516>>, <<6528, 6571>>, <<6576, 6601>>,
     <<6608, 6618>>, <<6656, 6678>>, <<6688, 6740>>, <<6784, 6793>>,
     <<6800, 6809>>, <<6823, 6823>>, <<6917, 6963>>, <<6981, 6988>>,
     <<6992, 7001>>, <<7043, 7072>>, <<7086, 7141>>, <<7168, 7203>>,
     <<7232, 7241>>, <<7245, 7293>>, <<7296, 7304>>, <<7312, 7354>>,
     <<7357, 7359>>, <<7401, 7404>>, <<7406, 7411>>, <<7413, 7414>>,
     <<7418, 7418>>, <<7424, 7615>>, <<7680, 7957>>, <<7960, 7965>>,
     <<7968, 8005>>, <<8008, 8013>>, <<8016, 8023>>, <<8025, 8025>>,
     <<8027, 8027>>, <<8029, 8029>>, <<8031, 8061>>, <<8064, 8116>>,
     <<8118, 8124>>, <<8126, 8126>>, <<8130, 8132>>, <<8134, 8140>>,
     <<8144, 8147>>, <<8150, 8155>>, <<8160, 8172>>, <<8178, 8180>>,
     <<8182, 8188>>, <<8304, 8305>>, <<8308, 8313>>, <<8319, 8329>>,
     <<8336, 8348>>, <<8450, 8450>>, <<8455, 8455>>, <<8458, 8467>>,
     <<8469, 8469>>, <<8473, 8477>>, <<8484, 8484>>, <<8486, 8486>>,
     <<8488, 8488>>, <<8490, 8493>>, <<8495, 8505>>, <<8508, 8511>>,
     <<8517, 8521>>, <<8526, 8526>>, <<8528, 8585>>, <<9312, 9371>>,
     <<9450, 9471>>, <<10102, 10131>>, <<11264, 11492>>, <<11499, 11502>>,
     <<11506, 11507>>, <<11517, 11517>>, <<11520, 11557>>, <<11559, 11559>>,
     <<11565, 11565>>, <<11568, 11623>>, <<11631, 11631>>, <<11648, 11670>>,
     <<11680, 11686>>, <<11688, 11694>>, <<11696, 11702>>, <<11704, 11710>>,
     <<11712, 11718>>, <<11720, 11726>>, <<11728, 11734>>, <<11736, 11742>>,
     <<11823, 11823>>, <<12293, 12295>>, <<12321, 12329>>, <<12337, 12341>>,
     <<12344, 12348>>, <<12353, 12438>>, <<12445, 12447>>, <<12449, 12538>>,
     <<12540, 12543>>, <<12549, 12591>>, <<12593, 12686>>, <<12690, 12693>>,
     <<12704, 12735>>, <<12784, 12799>>, <<12832, 12841>>, <<12872, 12879>>,
     <<12881, 12895>>, <<12928, 12937>>, <<12977, 12991>>, <<13312, 19903>>,
     <<19968, 42124>>, <<42192, 42237>>, <<42240, 42508>>, <<42512, 42539>>,
     <<42560, 42606>>, <<42623, 42653>>, <<42656, 42735>>, <<42775, 42783>>,
     <<42786, 42888>>, <<42891, 42954>>, <<42960, 42961>>, <<42963, 42963>>,
     <<42965, 42969>>, <<42994, 43009>>, <<43011, 43013>>, <<43015, 43018>>,
     <<43020, 43042>>, <<43056, 43061>>, <<43072, 43123>>, <<43138, 43187>>,
     <<43216, 43225>>, <<43250, 43255>>, <<43259, 43259>>, <<43261, 43262>>,
     <<43264, 43301>>, <<43312, 43334>>, <<43360, 43388>>, <<43396, 43442>>,
     <<43471, 43481>>, <<43488, 43492>>, <<43494, 43518>>, <<43520, 43560>>,
     <<43584, 43586>>, <<43588, 43595>>, <<43600, 43609>>, <<43616, 43638>>,
     <<43642, 43642>>, <<43646, 43695>>, <<43697, 43697>>, <<43701, 43702>>,
     <<43705, 43709>>, <<43712, 43712>>, <<43714, 43714>>, <<43739, 43741>>,
     <<43744, 43754>>, <<43762, 43764>>, <<43777, 43782>>, <<43785, 43790>>,
     <<43793, 43798>>, <<43808, 43814>>, <<43816, 43822>>, <<43824, 43866>>,
     <<43868, 43881>>, <<43888, 44002>>, <<44016, 44025>>, <<44032, 55203>>,
     <<55216, 55238>>, <<55243, 55291>>, <<63744, 64109>>, <<64112, 64217>>,
     <<64256, 64262>>, <<64275, 64279>>, <<64285, 64285>>, <<64287, 64296>>,
     <<64298, 64310>>, <<64312, 64316>>, <<64318, 64318>>, <<64320, 64321>>,
     <<64323, 64324>>, <<64326, 64433>>, <<64467, 64829>>, <<64848, 64911>>,
     <<64914, 64967>>, <<65008, 65019>>, <<65136, 65140>>, <<65142, 65276>>,
     <<65296, 65305>>, <<65313, 65338>>, <<65345, 65370>>, <<65382, 65470>>,
     <<65474, 65479>>, <<65482, 65487>>, <<65490, 65495>>, <<65498, 65500>>,
     <<65536, 65547>>, <<65549, 65574>>, <<65576, 65594>>, <<65596, 65597>>,
     <<65599, 65613>>, <<65616, 65629>>, <<65664, 65786>>, <<65799, 65843>>,
     <<65856, 65912>>, <<65930, 65931>>, <<66176, 66204>>, <<66208, 66256>>,
     <<66273, 66299>>, <<66304, 66339>>, <<66349, 66378>>, <<66384, 66421>>,
     <<66432, 66461>>, <<66464, 66499>>, <<66504, 66511>>, <<66513, 66517>>,
     <<66560, 66717>>, <<66720, 66729>>, <<66736, 66771>>, <<66776, 66811>>,
     <<66816, 66855>>, <<66864, 66915>>, <<66928, 66938>>, <<66940, 66954>>,
     <<66956, 66962>>, <<66964, 66965>>, <<66967, 66977>>, <<66979, 66993>>,
     <<66995, 67001>>, <<67003, 67004>>, <<67072, 67382>>, <<67392, 67413>>,
     <<67424, 67431>>, <<67456, 67461>>, <<67463, 67504>>, <<67506, 67514>>,
     <<67584, 67589>>, <<67592, 67592>>, <<67594, 67637>>, <<67639, 67640>>,
     <<67644, 67644>>, <<67647, 67669>>, <<67672, 67702>>, <<67705, 67742>>,
     <<67751, 67759>>, <<67808, 67826>>, <<67828, 67829>>, <<67835, 67867>>,
     <<67872, 67897>>, <<67968, 68023>>, <<68028, 68047>>, <<68050, 68096>>,
     <<68112, 68115>>, <<68117, 68119>>, <<68121, 68149>>, <<68160, 68168>>,
     <<68192, 68222>>, <<68224, 68255>>, <<68288, 68295>>, <<68297, 68324>>,
     <<68331, 68335>>, <<68352, 68405>>, <<68416, 68437>>, <<68440, 68466>>,
     <<68472, 68497>>, <<68521, 68527>>, <<68608, 68680>>, <<68736, 68786>>,
     <<68800, 68850>>, <<68858, 68899>>, <<68912, 68921>>, <<69216, 69246>>,
     <<69248, 69289>>, <<69296, 69297>>, <<69376, 69415>>, <<69424, 69445>>,
     <<69457, 69460>>, <<69488, 69505>>, <<69552, 69579>>, <<69600, 69622>>,
     <<69635, 69687>>, <<69714, 69743>>, <<69745, 69746>>, <<69749, 69749>>,
     <<69763, 69807>>, <<69840, 69864>>, <<69872, 69881>>, <<69891, 69926>>,
     <<69942, 69951>>, <<69956, 69956>>, <<69959, 69959>>, <<69968, 70002>>,
     <<70006, 70006>>, <<70019, 70066>>, <<70081, 70084>>, <<70096, 70106>>,
     <<70108, 70108>>, <<70113, 70132>>, <<70144, 70161>>, <<70163, 70187>>,
     <<70272, 70278>>, <<70280, 70280>>, <<70282, 70285>>, <<70287, 70301>>,
     <<70303, 70312>>, <<70320, 70366>>, <<70384, 70393>>, <<70405, 70412>>,
     <<70415, 70416>>, <<70419, 70440>>, <<70442, 70448>>, <<70450, 70451>>,
     <<70453, 70457>>, <<70461, 70461>>, <<70480, 70480>>, <<70493, 70497>>,
     <<70656, 70708>>, <<70727, 70730>>, <<70736, 70745>>, <<70751, 70753>>,
     <<70784, 70831>>, <<70852, 70853>>, <<70855, 70855>>, <<70864, 70873>>,
     <<71040, 71086>>, <<71128, 71131>>, <<71168, 71215>>, <<71236, 71236>>,
     <<71248, 71257>>, <<71296, 71338>>, <<71352, 71352>>, <<71360, 71369>>,
     <<71424, 71450>>, <<71472, 71483>>, <<71488, 71494>>, <<71680, 71723>>,
     <<71840, 71922>>, <<71935, 71942>>, <<71945, 71945>>, <<71948, 71955>>,
     <<71957, 71958>>, <<71960, 71983>>, <<71999, 71999>>, <<72001, 72001>>,
     <<72016, 72025>>, <<72096, 72103>>, <<72106, 72144>>, <<72161, 72161>>,
     <<72163, 72163>>, <<72192, 72192>>, <<72203, 72242>>, <<72250, 72250>>,
     <<72272, 72272>>, <<72284, 72329>>, <<72349, 72349>>, <<72368, 72440>>,
     <<72704, 72712>>, <<72714, 72750>>, <<72768, 72768>>, <<72784, 72812>>,
     <<72818, 72847>>, <<72960, 72966>>, <<72968, 72969>>, <<72971, 73008>>,
     <<73030, 73030>>, <<73040, 73049>>, <<73056, 73061>>, <<73063, 73064>>,
     <<73066, 73097>>, <<73112, 73112>>, <<73120, 73129>>, <<73440, 73458>>,
     <<73648, 73648>>, <<73664, 73684>>, <<73728, 74649>>, <<74752, 74862>>,
     <<74880, 75075>>, <<77712, 77808>>, <<77824, 78894>>, <<82944, 83526>>,
     <<92160, 92728>>, <<92736, 92766>>, <<92768, 92777>>, <<92784, 92862>>,
     <<92864, 92873>>, <<92880, 92909>>, <<92928, 92975>>, <<92992, 92995>>,
     <<93008, 93017>>, <<93019, 93025>>, <<93027, 93047>>, <<93053, 93071>>,
     <<93760, 93846>>, <<93952, 94026>>, <<94032, 94032>>, <<94099, 94111>>,
     <<94176, 94177>>, <<94179, 94179>>, <<94208, 100343>>,
     <<100352, 101589>>, <<101632, 101640>>, <<110576, 110579>>,
     <<110581, 110587>>, <<110589, 110590>>, <<110592, 110882>>,
     <<110928, 110930>>, <<110948, 110951>>, <<110960, 111355>>,
     <<113664, 113770>>, <<113776, 113788>>, <<113792, 113800>>,
     <<113808, 113817>>, <<119520, 119539>>, <<119648, 119672>>,
     <<119808, 119892>>, <<119894, 119964>>, <<119966, 119967>>,
     <<119970, 119970>>, <<119973, 119974>>, <<119977, 119980>>,
     <<119982, 119993>>, <<119995, 119995>>, <<119997, 120003>>,
     <<120005, 120069>>, <<120071, 120074>>, <<120077, 120084>>,
     <<120086, 120092>>, <<120094, 120121>>, <<120123, 120126>>,
     <<120128, 120132>>, <<120134, 120134>>, <<120138, 120144>>,
     <<120146, 120485>>, <<120488, 120512>>, <<120514, 120538>>,
     <<120540, 120570>>, <<120572, 120596>>, <<120598, 120628>>,
     <<120630, 120654>>, <<120656, 120686>>, <<120688, 120712>>,
     <<120714, 120744>>, <<120746, 120770>>, <<120772, 120779>>,
     <<120782, 120831>>, <<122624, 122654>>, <<123136, 123180>>,
     <<123191, 123197>>, <<123200, 123209>>, <<123214, 123214>>,
     <<123536, 123565>>, <<123584, 123627>>, <<123632, 123641>>,
     <<124896, 124902>>, <<124904, 124907>>, <<124909, 124910>>,
     <<124912, 124926>>, <<124928, 125124>>, <<125127, 125135>>,
     <<125184, 125251>>, <<125259, 125259>>, <<125264, 125273>>,
     <<126065, 126123>>, <<126125, 126127>>, <<126129, 126132>>,
     <<126209, 126253>>, <<126255, 126269>>, <<126464, 126467>>,
     <<126469, 126495>>, <<126497, 126498>>, <<126500, 126500>>,
     <<126503, 126503>>, <<126505, 126514>>, <<126516, 126519>>,
     <<126521, 126521>>, <<126523, 126523>>, <<126530, 126530>>,
     <<126535, 126535>>, <<126537, 126537>>, <<126539, 126539>>,
     <<126541, 126543>>, <<126545, 126546>>, <<126548, 126548>>,
     <<126551, 126551>>, <<126553, 126553>>, <<126555, 126555>>,
     <<126557, 126557>>, <<126559, 126559>>, <<126561, 126562>>,
     <<126564, 126564>>, <<126567, 126570>>, <<126572, 126578>>,
     <<126580, 126583>>, <<126585, 126588>>, <<126590, 126590>>,
     <<126592, 126601>>, <<126603, 126619>>, <<126625, 126627>>,
     <<126629, 126633>>, <<126635, 126651>>, <<127232, 127244>>,
     <<130032, 130041>>, <<131072, 173791>>, <<173824, 177976>>,
     <<177984, 178205>>, <<178208, 183969>>, <<183984, 191456>>,
     <<194560, 195101>>, <<196608, 201546>>>>

\* code point c lies in a range of the table
InRanges(c, table) ==
    \E k \in 1..Len(table) : table[k][1] <= c /\ c <= table[k][2]

\* the range of the table that holds c
RangeOf(c, table) ==
    table[CHOOSE k \in 1..Len(table) : table[k][1] <= c /\ c <= table[k][2]]

\* ch.isspace()
IsSpace(c) ==
    IF c < 128 THEN (c >= 9 /\ c <= 13) \/ (c >= 28 /\ c <= 32)
    ELSE InRanges(c, SpaceRanges)

\* ch.isdecimal()
IsDecimal(c) ==
    IF c < 128 THEN c >= Zero /\ c <= Nine
    ELSE InRanges(c, DecimalRanges)

\* re \w
IsWord(c) ==
    IF c < 128
    THEN \/ c >= Zero /\ c <= Nine
         \/ c >= UpperA /\ c <= UpperZ
         \/ c >= LowerA /\ c <= LowerZ
         \/ c = Underscore
    ELSE InRanges(c, WordRanges)

\* unicodedata.decimal(ch) of a decimal digit
DecimalValue(c) == (c - RangeOf(c, DecimalRanges)[1]) % 10

\* Py_ISSPACE: the blanks int() and float() remove around the number
IsAsciiSpace(c) == (c >= 9 /\ c <= 13) \/ c = Space

IsAsciiDigit(c) == c >= Zero /\ c <= Nine

(***************************************************************************)
(* str primitives.                                                         *)
(***************************************************************************)
\* the function f on 1..n as the sequence <<f[1], ..., f[n]>>
AsSeq(f) == f \o <<>>

\* ord of the character at 1-based position k, -1 out of range
Char(s, k) == IF k >= 1 /\ k <= Len(s) THEN s[k] ELSE -1

\* s[k-1:] of Python
From(s, k) == IF k > Len(s) THEN <<>> ELSE SubSeq(s, k, Len(s))

\* s.startswith(p)
StartsWith(s, p) == Len(s) >= Len(p) /\ SubSeq(s, 1, Len(p)) = p

\* first position of the sequence of booleans b that holds TRUE, Len(b) + 1
\* when there is none
FirstTrue(b) ==
    IF \E j \in 1..Len(b) : b[j]
    THEN CHOOSE j \in 1..Len(b) : b[j] /\ \A m \in 1..(j - 1) : ~b[m]
    ELSE Len(b) + 1

\* last position of the sequence of booleans b that holds TRUE, 0 when
\* there is none
LastTrue(b) ==
    IF \E j \in 1..Len(b) : b[j]
    THEN CHOOSE j \in 1..Len(b) : b[j] /\ \A m \in (j + 1)..Len(b) : ~b[m]
    ELSE 0

\* s.lstrip()
LStrip(s) ==
    From(s, FirstTrue(AsSeq([k \in 1..Len(s) |-> ~IsSpace(s[k])])))

\* first position >= k of character c in s, 0 when there is none (the
\* Len(s) + 1 of FirstTrue)
IndexOf(s, c, k) ==
    FirstTrue(AsSeq([j \in 1..Len(s) |-> j >= k /\ s[j] = c])) % (Len(s) + 1)

\* the positions of character c in s, in order
Positions(s, c) ==
    SelectSeq(AsSeq([k \in 1..Len(s) |-> k]), LAMBDA k : s[k] = c)

\* the parts of s between the separators at the positions seps
SplitAt(s, seps) ==
    AsSeq([k \in 1..(Len(seps) + 1) |->
               SubSeq(s,
                      IF k = 1 THEN 1 ELSE seps[k - 1] + 1,
                      IF k > Len(seps) THEN Len(s) ELSE seps[k] - 1)])

\* s.split(c) for a one-character separator c
Split(s, c) == SplitAt(s, Positions(s, c))

RECURSIVE Join(_, _)
\* c.join(parts) for a one-character c
Join(c, parts) ==
    IF Len(parts) = 0 THEN <<>>
    ELSE IF Len(parts) = 1 THEN parts[1]
    ELSE parts[1] \o <<c>> \o Join(c, Tail(parts))

\* s.replace(c, "") for a one-character c
Remove(s, c) == SelectSeq(s, LAMBDA x : x # c)

\* the line boundaries of str.splitlines(): \n \v \f \r \x1c \x1d \x1e \x85
\* \u2028 \u2029
IsLineBreak(c) ==
    \/ c >= 10 /\ c <= 13
    \/ c >= 28 /\ c <= 30
    \/ c = 133
    \/ c = 8232
    \/ c = 8233

RECURSIVE LineEnd(_, _)
\* position of the first line boundary of s at or after k, 0 when none
LineEnd(s, k) ==
    IF k > Len(s) THEN 0
    ELSE IF IsLineBreak(s[k]) THEN k
    ELSE LineEnd(s, k + 1)

\* length of the boundary at position p: \r\n is one boundary
BreakLen(s, p) == IF s[p] = CR /\ Char(s, p + 1) = LF THEN 2 ELSE 1

RECURSIVE SplitLinesAt(_, _)
\* p is the position of the first boundary of page
SplitLinesAt(page, p) ==
    IF Len(page) = 0 THEN <<>>
    ELSE IF p = 0 THEN <<page>>
    ELSE <<SubSeq(page, 1, p - 1)>>
             \o SplitLinesAt(From(page, p + BreakLen(page, p)),
                             LineEnd(From(page, p + BreakLen(page, p)), 1))

\* page.splitlines()
SplitLines(page) == SplitLinesAt(page, LineEnd(page, 1))

(***************************************************************************)
(* get_page_lines                                                          *)
(***************************************************************************)
RECURSIVE SpaceRun(_, _)
\* length of the run of spaces of s that starts at position k
SpaceRun(s, k) == IF Char(s, k) = Space THEN 1 + SpaceRun(s, k + 1) ELSE 0

RECURSIVE ReSubFrom(_, _, _)
\* re.sub(r' {4,}', '|', s), scanning from position k, where a run of r
\* spaces starts: the regex is greedy, so a match takes the whole run
ReSubFrom(s, k, r) ==
    IF k > Len(s) THEN <<>>
    ELSE IF r >= 4
    THEN <<Pipe>> \o ReSubFrom(s, k + r, SpaceRun(s, k + r))
    ELSE <<s[k]>> \o ReSubFrom(s, k + 1, SpaceRun(s, k + 1))

ReSub(s) == ReSubFrom(s, 1, SpaceRun(s, 1))

\* line 106: re.sub(r' {4,}', '|', line).split('|')
ParseLine(line) == Split(ReSub(line), Pipe)

RECURSIVE MapParseLine(_)
MapParseLine(lines) ==
    IF Len(lines) = 0 THEN <<>>
    ELSE <<ParseLine(Head(lines))>> \o MapParseLine(Tail(lines))

\* get_page_lines(page)
get_page_lines(page) == MapParseLine(SplitLines(page))

(***************************************************************************)
(* Python values.  An optional value (None or x) is a sequence of length   *)
(* 0 or 1.                                                                 *)
(*                                                                         *)
(* An int is its sign and its decimal digits without leading zeros (zero   *)
(* has no digits), so that ints of any size are values.                    *)
(*                                                                         *)
(* A float is [kind, neg, digits, exp]: kind "nan", kind "inf" with its    *)
(* sign, or kind "finite" for the double nearest to the decimal            *)
(* 0.d1 d2 ... dn * 10^exp, written with d1 # 0 and dn # 0 (zero has no    *)
(* digits and exp 0, and keeps its sign).                                  *)
(***************************************************************************)
None == <<>>
Some(x) == <<x>>

\* int() and float() of a str first rewrite it: every non-ASCII blank
\* becomes " ", every non-ASCII decimal digit its ASCII digit, and every
\* other non-ASCII character one that no number contains ("?")
AsciiOf(c) ==
    IF c < 127 THEN c
    ELSE IF IsSpace(c) THEN Space
    ELSE IF IsDecimal(c) THEN Zero + DecimalValue(c)
    ELSE QuestionMark

TransformDecimalAndSpaceToASCII(s) ==
    AsSeq([k \in 1..Len(s) |-> AsciiOf(s[k])])

LStripAscii(s) ==
    From(s, FirstTrue(AsSeq([k \in 1..Len(s) |-> ~IsAsciiSpace(s[k])])))

RStripAscii(s) ==
    SubSeq(s, 1, LastTrue(AsSeq([k \in 1..Len(s) |-> ~IsAsciiSpace(s[k])])))

\* the text int() and float() read the number from
NumberText(s) == RStripAscii(LStripAscii(TransformDecimalAndSpaceToASCII(s)))

\* every character of s is an ASCII digit
AllDigits(s) == \A k \in 1..Len(s) : IsAsciiDigit(s[k])

\* every "_" of s stands between two digits
UnderscoresGroupDigits(s) ==
    \A k \in 1..Len(s) :
        s[k] = Underscore
            => IsAsciiDigit(Char(s, k - 1)) /\ IsAsciiDigit(Char(s, k + 1))

\* the digits 0..9 that a text of ASCII digits denotes
DigitsOf(s) == AsSeq([k \in 1..Len(s) |-> s[k] - Zero])

StripLeadingZeros(ds) ==
    From(ds, FirstTrue(AsSeq([k \in 1..Len(ds) |-> ds[k] # 0])))

StripTrailingZeros(ds) ==
    SubSeq(ds, 1, LastTrue(AsSeq([k \in 1..Len(ds) |-> ds[k] # 0])))

RECURSIVE DigitsVal(_)
\* the number a short sequence of digits denotes (<<>> denotes 0)
DigitsVal(ds) ==
    IF Len(ds) = 0 THEN 0
    ELSE 10 * DigitsVal(SubSeq(ds, 1, Len(ds) - 1)) + ds[Len(ds)]

\* 0.a1 a2 ... < 0.b1 b2 ... for digit sequences without trailing zeros:
\* at the first position where they differ, a has ended or has the smaller
\* digit
DigitsLess(a, b) ==
    \E k \in 1..Len(b) :
        /\ k > Len(a) \/ a[k] < b[k]
        /\ \A j \in 1..(k - 1) : j <= Len(a) /\ a[j] = b[j]

(***************************************************************************)
(* int(s)                                                                  *)
(***************************************************************************)
IntError == [err |-> TRUE, neg |-> FALSE, digits |-> <<>>]

\* ds: the digits read, without leading zeros; -0 is 0
IntValue(neg, ds) ==
    [err |-> FALSE, neg |-> neg /\ Len(ds) > 0, digits |-> ds]

\* sys.get_int_max_str_digits() of CPython 3.11: int() raises ValueError for
\* a text of more digits, leading zeros counted, "_" not
MaxStrDigits == 4300

\* u is the text after the sign: digits, single "_" allowed between digits
IntDigits(neg, u) ==
    IF Len(u) > 0 /\ UnderscoresGroupDigits(u)
                  /\ AllDigits(Remove(u, Underscore))
                  /\ Len(Remove(u, Underscore)) <= MaxStrDigits
    THEN IntValue(neg, StripLeadingZeros(DigitsOf(Remove(u, Underscore))))
    ELSE IntError

\* t is the text without surrounding blanks
IntSigned(t) ==
    IF Char(t, 1) = Plus \/ Char(t, 1) = Hyphen
    THEN IntDigits(t[1] = Hyphen, Tail(t))
    ELSE IntDigits(FALSE, t)

Int_(s) == IntSigned(NumberText(s))

\* n == k for an int n of the model and a small natural k
IntEquals(n, k) == ~n.neg /\ Len(n.digits) <= 4 /\ DigitsVal(n.digits) = k

\* the digits of INT_MAX = 2^31 - 1 and of -INT_MIN = 2^31
IntMaxDigits == <<2, 1, 4, 7, 4, 8, 3, 6, 4, 7>>
IntMinDigits == <<2, 1, 4, 7, 4, 8, 3, 6, 4, 8>>

\* n fits a C int: INT_MIN <= n <= INT_MAX
FitsCInt(n) ==
    \/ Len(n.digits) < Len(IntMaxDigits)
    \/ /\ Len(n.digits) = Len(IntMaxDigits)
       /\ ~DigitsLess(IF n.neg THEN IntMinDigits ELSE IntMaxDigits, n.digits)

(***************************************************************************)
(* float(s)                                                                *)
(***************************************************************************)
FloatError ==
    [err |-> TRUE,
     val |-> [kind |-> "nan", neg |-> FALSE, digits |-> <<>>, exp |-> 0]]

FloatValue(kind, neg, digits, exp) ==
    [err |-> FALSE,
     val |-> [kind |-> kind, neg |-> neg, digits |-> digits, exp |-> exp]]

\* the decimals 0.d1 ... dn * 10^309 and 0.d1 ... dn * 10^LoExp half-way
\* between the largest double and 2^1024 (2^1024 - 2^970), and half-way
\* between 0 and the smallest double (2^-1075): a decimal at or above the
\* first reads as inf, one at or below the second as zero
HiExp == 309
HiDigits ==
    <<1, 7, 9, 7, 6, 9, 3, 1, 3, 4, 8, 6, 2, 3, 1, 5, 8, 0, 7, 9, 3, 7, 2, 8,
     9, 7, 1, 4, 0, 5, 3, 0, 3, 4, 1, 5, 0, 7, 9, 9, 3, 4, 1, 3, 2, 7, 1, 0,
     0, 3, 7, 8, 2, 6, 9, 3, 6, 1, 7, 3, 7, 7, 8, 9, 8, 0, 4, 4, 4, 9, 6, 8,
     2, 9, 2, 7, 6, 4, 7, 5, 0, 9, 4, 6, 6, 4, 9, 0, 1, 7, 9, 7, 7, 5, 8, 7,
     2, 0, 7, 0, 9, 6, 3, 3, 0, 2, 8, 6, 4, 1, 6, 6, 9, 2, 8, 8, 7, 9, 1, 0,
     9, 4, 6, 5, 5, 5, 5, 4, 7, 8, 5, 1, 9, 4, 0, 4, 0, 2, 6, 3, 0, 6, 5, 7,
     4, 8, 8, 6, 7, 1, 5, 0, 5, 8, 2, 0, 6, 8, 1, 9, 0, 8, 9, 0, 2, 0, 0, 0,
     7, 0, 8, 3, 8, 3, 6, 7, 6, 2, 7, 3, 8, 5, 4, 8, 4, 5, 8, 1, 7, 7, 1, 1,
     5, 3, 1, 7, 6, 4, 4, 7, 5, 7, 3, 0, 2, 7, 0, 0, 6, 9, 8, 5, 5, 5, 7, 1,
     3, 6, 6, 9, 5, 9, 6, 2, 2, 8, 4, 2, 9, 1, 4, 8, 1, 9, 8, 6, 0, 8, 3, 4,
     9, 3, 6, 4, 7, 5, 2, 9, 2, 7, 1, 9, 0, 7, 4, 1, 6, 8, 4, 4, 4, 3, 6, 5,
     5, 1, 0, 7, 0, 4, 3, 4, 2, 7, 1, 1, 5, 5, 9, 6, 9, 9, 5, 0, 8, 0, 9, 3,
     0, 4, 2, 8, 8, 0, 1, 7, 7, 9, 0, 4, 1, 7, 4, 4, 9, 7, 7, 9, 2>>
LoExp == -323
LoDigits ==
    <<2, 4, 7, 0, 3, 2, 8, 2, 2, 9, 2, 0, 6, 2, 3, 2, 7, 2, 0, 8, 8, 2, 8, 4,
     3, 9, 6, 4, 3, 4, 1, 1, 0, 6, 8, 6, 1, 8, 2, 5, 2, 9, 9, 0, 1, 3, 0, 7,
     1, 6, 2, 3, 8, 2, 2, 1, 2, 7, 9, 2, 8, 4, 1, 2, 5, 0, 3, 3, 7, 7, 5, 3,
     6, 3, 5, 1, 0, 4, 3, 7, 5, 9, 3, 2, 6, 4, 9, 9, 1, 8, 1, 8, 0, 8, 1, 7,
     9, 9, 6, 1, 8, 9, 8, 9, 8, 2, 8, 2, 3, 4, 7, 7, 2, 2, 8, 5, 8, 8, 6, 5,
     4, 6, 3, 3, 2, 8, 3, 5, 5, 1, 7, 7, 9, 6, 9, 8, 9, 8, 1, 9, 9, 3, 8, 7,
     3, 9, 8, 0, 0, 5, 3, 9, 0, 9, 3, 9, 0, 6, 3, 1, 5, 0, 3, 5, 6, 5, 9, 5,
     1, 5, 5, 7, 0, 2, 2, 6, 3, 9, 2, 2, 9, 0, 8, 5, 8, 3, 9, 2, 4, 4, 9, 1,
     0, 5, 1, 8, 4, 4, 3, 5, 9, 3, 1, 8, 0, 2, 8, 4, 9, 9, 3, 6, 5, 3, 6, 1,
     5, 2, 5, 0, 0, 3, 1, 9, 3, 7, 0, 4, 5, 7, 6, 7, 8, 2, 4, 9, 2, 1, 9, 3,
     6, 5, 6, 2, 3, 6, 6, 9, 8, 6, 3, 6, 5, 8, 4, 8, 0, 7, 5, 7, 0, 0, 1, 5,
     8, 5, 7, 6, 9, 2, 6, 9, 9, 0, 3, 7, 0, 6, 3, 1, 1, 9, 2, 8, 2, 7, 9, 5,
     5, 8, 5, 5, 1, 3, 3, 2, 9, 2, 7, 8, 3, 4, 3, 3, 8, 4, 0, 9, 3, 5, 1, 9,
     7, 8, 0, 1, 5, 5, 3, 1, 2, 4, 6, 5, 9, 7, 2, 6, 3, 5, 7, 9, 5, 7, 4, 6,
     2, 2, 7, 6, 6, 4, 6, 5, 2, 7, 2, 8, 2, 7, 2, 2, 0, 0, 5, 6, 3, 7, 4, 0,
     0, 6, 4, 8, 5, 4, 9, 9, 9, 7, 7, 0, 9, 6, 5, 9, 9, 4, 7, 0, 4, 5, 4, 0,
     2, 0, 8, 2, 8, 1, 6, 6, 2, 2, 6, 2, 3, 7, 8, 5, 7, 3, 9, 3, 4, 5, 0, 7,
     3, 6, 3, 3, 9, 0, 0, 7, 9, 6, 7, 7, 6, 1, 9, 3, 0, 5, 7, 7, 5, 0, 6, 7,
     4, 0, 1, 7, 6, 3, 2, 4, 6, 7, 3, 6, 0, 0, 9, 6, 8, 9, 5, 1, 3, 4, 0, 5,
     3, 5, 5, 3, 7, 4, 5, 8, 5, 1, 6, 6, 6, 1, 1, 3, 4, 2, 2, 3, 7, 6, 6, 6,
     7, 8, 6, 0, 4, 1, 6, 2, 1, 5, 9, 6, 8, 0, 4, 6, 1, 9, 1, 4, 4, 6, 7, 2,
     9, 1, 8, 4, 0, 3, 0, 0, 5, 3, 0, 0, 5, 7, 5, 3, 0, 8, 4, 9, 0, 4, 8, 7,
     6, 5, 3, 9, 1, 7, 1, 1, 3, 8, 6, 5, 9, 1, 6, 4, 6, 2, 3, 9, 5, 2, 4, 9,
     1, 2, 6, 2, 3, 6, 5, 3, 8, 8, 1, 8, 7, 9, 6, 3, 6, 2, 3, 9, 3, 7, 3, 2,
     8, 0, 4, 2, 3, 8, 9, 1, 0, 1, 8, 6, 7, 2, 3, 4, 8, 4, 9, 7, 6, 6, 8, 2,
     3, 5, 0, 8, 9, 8, 6, 3, 3, 8, 8, 5, 8, 7, 9, 2, 5, 6, 2, 8, 3, 0, 2, 7,
     5, 5, 9, 9, 5, 6, 5, 7, 5, 2, 4, 4, 5, 5, 5, 0, 7, 2, 5, 5, 1, 8, 9, 3,
     1, 3, 6, 9, 0, 8, 3, 6, 2, 5, 4, 7, 7, 9, 1, 8, 6, 9, 4, 8, 6, 6, 7, 9,
     9, 4, 9, 6, 8, 3, 2, 4, 0, 4, 9, 7, 0, 5, 8, 2, 1, 0, 2, 8, 5, 1, 3, 1,
     8, 5, 4, 5, 1, 3, 9, 6, 2, 1, 3, 8, 3, 7, 7, 2, 2, 8, 2, 6, 1, 4, 5, 4,
     3, 7, 6, 9, 3, 4, 1, 2, 5, 3, 2, 0, 9, 8, 5, 9, 1, 3, 2, 7, 6, 6, 7, 2,
     3, 6, 3, 2, 8, 1, 2, 5>>

\* the double nearest to 0.ds * 10^e, ds without leading or trailing zeros;
\* every e above HiExp gives the same double, and every e below LoExp
RoundDecimal(neg, ds, e) ==
    IF Len(ds) = 0 THEN FloatValue("finite", neg, <<>>, 0)
    ELSE IF e > HiExp \/ (e = HiExp /\ ~DigitsLess(ds, HiDigits))
    THEN FloatValue("inf", neg, <<>>, 0)
    ELSE IF e < LoExp \/ (e = LoExp /\ ~DigitsLess(LoDigits, ds))
    THEN FloatValue("finite", neg, <<>>, 0)
    ELSE FloatValue("finite", neg, ds, e)

\* The limits of CPython's _Py_dg_strtod (Python/dtoa.c), the parser behind
\* float(): a number of more than MAX_DIGITS digits is a parse error, and a
\* written exponent of more than 9 significant digits is read as
\* MAX_ABS_EXP.
MAX_DIGITS == 1000000000
MAX_ABS_EXP == 1100000000

\* v, negated when neg
Signed(neg, v) == IF neg THEN 0 - v ELSE v

\* ndigits: the digits of the number, those before and after the point,
\* without its leading zeros; fraclen: the digits after the point, leading
\* zeros included
WithinMaxDigits(ndigits, fraclen) ==
    ndigits <= MAX_DIGITS /\ fraclen <= MAX_DIGITS

\* the exponent e read from the text xs (digits without leading zeros),
\* negative when xneg
WrittenExp(xneg, xs) ==
    Signed(xneg, IF Len(xs) > 9 THEN MAX_ABS_EXP ELSE DigitsVal(xs))

\* the exponent read, moved by the shift of the point
ScaledExp(shift, xneg, xs) == shift + WrittenExp(xneg, xs)

\* ds: the digits before and after the point, lead of them leading zeros,
\* point of them before the point; xneg, xs: the written exponent
FloatScaled(neg, ds, lead, point, xneg, xs) ==
    RoundDecimal(neg, StripTrailingZeros(SubSeq(ds, lead + 1, Len(ds))),
                 ScaledExp(point - lead, xneg, xs))

\* ip, fp: the texts before and after the point; xneg, xs: the written
\* exponent
FloatDigits(neg, ip, fp, xneg, xs) ==
    IF /\ AllDigits(ip) /\ AllDigits(fp) /\ Len(ip) + Len(fp) > 0
       /\ WithinMaxDigits(Len(StripLeadingZeros(DigitsOf(ip \o fp))), Len(fp))
    THEN FloatScaled(neg, DigitsOf(ip \o fp),
                     Len(ip \o fp) - Len(StripLeadingZeros(DigitsOf(ip \o fp))),
                     Len(ip), xneg, xs)
    ELSE FloatError

\* m: the mantissa text, p the position of its first ".", 0 when none
FloatMantissa(neg, m, p, xneg, xs) ==
    FloatDigits(neg,
                IF p = 0 THEN m ELSE SubSeq(m, 1, p - 1),
                IF p = 0 THEN <<>> ELSE From(m, p + 1),
                xneg, xs)

\* x: the exponent text after its sign
FloatExponentDigits(neg, m, xneg, x) ==
    IF Len(x) > 0 /\ AllDigits(x)
    THEN FloatMantissa(neg, m, IndexOf(m, Dot, 1),
                       xneg, StripLeadingZeros(DigitsOf(x)))
    ELSE FloatError

\* x: the text after the "e" or "E"
FloatExponent(neg, m, x) ==
    IF Char(x, 1) = Plus \/ Char(x, 1) = Hyphen
    THEN FloatExponentDigits(neg, m, x[1] = Hyphen, Tail(x))
    ELSE FloatExponentDigits(neg, m, FALSE, x)

\* first position of "e" or "E" in r, 0 when there is none
ExponentMark(r) ==
    IF IndexOf(r, LowerE, 1) = 0 THEN IndexOf(r, UpperE, 1)
    ELSE IF IndexOf(r, UpperE, 1) = 0 THEN IndexOf(r, LowerE, 1)
    ELSE IF IndexOf(r, LowerE, 1) < IndexOf(r, UpperE, 1)
    THEN IndexOf(r, LowerE, 1)
    ELSE IndexOf(r, UpperE, 1)

\* r: a decimal literal, p the position of its exponent mark, 0 when none
FloatDecimal(neg, r, p) ==
    IF p = 0 THEN FloatMantissa(neg, r, IndexOf(r, Dot, 1), FALSE, <<>>)
    ELSE FloatExponent(neg, SubSeq(r, 1, p - 1), From(r, p + 1))

\* s.lower() of an ASCII text
Lower(s) ==
    AsSeq([k \in 1..Len(s) |->
               IF s[k] >= UpperA /\ s[k] <= UpperZ
               THEN s[k] + (LowerA - UpperA)
               ELSE s[k]])

Inf == S("inf")
Infinity == S("infinity")
NaN == S("nan")

\* r: the text after the sign, low the same in lower case
FloatBody(neg, r, low) ==
    IF low = Inf \/ low = Infinity THEN FloatValue("inf", neg, <<>>, 0)
    ELSE IF low = NaN THEN FloatValue("nan", FALSE, <<>>, 0)
    ELSE FloatDecimal(neg, r, ExponentMark(r))

\* u: the text without "_"
FloatSigned(u) ==
    IF Char(u, 1) = Plus \/ Char(u, 1) = Hyphen
    THEN FloatBody(u[1] = Hyphen, Tail(u), Lower(Tail(u)))
    ELSE FloatBody(FALSE, u, Lower(u))

\* t: the text without surrounding blanks; "_" may group digits
FloatGrouped(t) ==
    IF UnderscoresGroupDigits(t) THEN FloatSigned(Remove(t, Underscore))
    ELSE FloatError

Float(s) == FloatGrouped(NumberText(s))

(***************************************************************************)
(* datetime.date                                                           *)
(***************************************************************************)
IsLeap(y) == (y % 4 = 0 /\ y % 100 # 0) \/ y % 400 = 0

DaysInMonth(y, m) ==
    IF m = 2 THEN (IF IsLeap(y) THEN 29 ELSE 28)
    ELSE IF m \in {4, 6, 9, 11} THEN 30
    ELSE 31

\* datetime.date(year, month, day) raises ValueError unless this holds
ValidDate(y, m, d) ==
    /\ y >= 1 /\ y <= 9999
    /\ m >= 1 /\ m <= 12
    /\ d >= 1 /\ d <= DaysInMonth(y, m)

\* the ints month and day of the model make a date of year y
ValidDayMonth(y, month, day) ==
    /\ ~month.neg /\ Len(month.digits) <= 2
    /\ ~day.neg /\ Len(day.digits) <= 2
    /\ ValidDate(y, DigitsVal(month.digits), DigitsVal(day.digits))

(***************************************************************************)
(* parse_amount                                                            *)
(***************************************************************************)
Placeholder == S("---")

\* returns None for the placeholder, else float(amount.replace(",", ""));
\* err says that float() raised ValueError
SomeFloat(f) == [err |-> f.err, val |-> Some(f.val)]

parse_amount(amount) ==
    IF amount = Placeholder THEN [err |-> FALSE, val |-> None]
    ELSE SomeFloat(Float(Remove(amount, Comma)))

(***************************************************************************)
(* parse_operation_line.  Its two branches (lines 119-134, 136-151) differ *)
(* only in the positions of the amount columns and in the country, so they *)
(* share the operators below, one per statement of a branch, each passing  *)
(* on the locals computed so far.                                          *)
(***************************************************************************)
ValueError(msg) == [kind |-> "ValueError", msg |-> msg]
IndexError(msg) == [kind |-> "IndexError", msg |-> msg]
OverflowError(msg) == [kind |-> "OverflowError", msg |-> msg]

Operation(date, description, country, amount, currency) ==
    [kind |-> "Operation", date |-> date, description |-> description,
     country |-> country, amount |-> amount, currency |-> currency]

\* Year with the correction applied to December only
YearDecemberOnly(cd, month) ==
    IF cd.month = 1 /\ IntEquals(month, 12) THEN cd.year - 1 ELSE cd.year

\* lines 125-127, 142-144
Year(cd, month) ==
    IF cd.month = 1 /\ (IntEquals(month, 12) \/ IntEquals(month, 11))
    THEN cd.year - 1
    ELSE cd.year

\* lines 128-134, 145-151; date() raises OverflowError when month or day
\* does not fit a C int, ValueError when they do and make no date
MakeOperation(line, country, currency, amount, year, month, day) ==
    IF ~FitsCInt(month) \/ ~FitsCInt(day) THEN OverflowError("date")
    ELSE IF ~ValidDayMonth(year, month, day) THEN ValueError("date")
    ELSE Operation([year |-> year, month |-> DigitsVal(month.digits),
                    day |-> DigitsVal(day.digits)],
                   line[3], country, amount, currency)

\* lines 124, 141: int() of the two parts
DecodeDayMonth(line, cd, country, currency, amount, day, month) ==
    IF day.err \/ month.err THEN ValueError("int")
    ELSE MakeOperation(line, country, currency, amount,
                       Year(cd, month), month, day)

\* lines 124, 141: day, month = ... line[1].split("-") must have two parts
DecodeDate(line, cd, country, currency, amount, parts) ==
    IF Len(parts) # 2 THEN ValueError("unpack")
    ELSE DecodeDayMonth(line, cd, country, currency, amount,
                        Int_(parts[1]), Int_(parts[2]))

\* lines 122-123, 139-140
DecodeAmount(line, cd, country, currency, amount) ==
    IF amount = None THEN ValueError("Invalid amount")
    ELSE DecodeDate(line, cd, country, currency, amount[1],
                    Split(line[2], Hyphen))

\* lines 121, 138: amount = pen_amount if pen_amount is not None else usd_amount
DecodeAmounts(line, cd, country, currency, pen_amount, usd_amount) ==
    IF pen_amount.err \/ usd_amount.err THEN ValueError("float")
    ELSE DecodeAmount(line, cd, country, currency,
                      IF pen_amount.val # None THEN pen_amount.val
                      ELSE usd_amount.val)

\* lines 133, 150: Currency.PEN if line[a] != "---" else Currency.USD
CurrencyOf(pen_text) == IF pen_text # Placeholder THEN "PEN" ELSE "USD"

\* parse_operation_line reading the country one column to the left
parse_operation_line_shifted(line, cd) ==
    IF Len(line) = 6
    THEN DecodeAmounts(line, cd, Some(line[3]), CurrencyOf(line[5]),
                       parse_amount(line[5]), parse_amount(line[6]))
    ELSE IF Len(line) = 5
    THEN DecodeAmounts(line, cd, None, CurrencyOf(line[4]),
                       parse_amount(line[4]), parse_amount(line[5]))
    ELSE ValueError("Invalid operation line")

parse_operation_line(line, cd) ==
    IF Len(line) = 6
    THEN DecodeAmounts(line, cd, Some(line[4]), CurrencyOf(line[5]),
                       parse_amount(line[5]), parse_amount(line[6]))
    ELSE IF Len(line) = 5
    THEN DecodeAmounts(line, cd, None, CurrencyOf(line[4]),
                       parse_amount(line[4]), parse_amount(line[5]))
    ELSE ValueError("Invalid operation line")

(***************************************************************************)
(* The holder pattern of line 57: re.search(r"(\w+ \w+) - (\d{4})", s)     *)
(***************************************************************************)
HolderSeparator == S(" - ")

\* s[a-1:b] of Python for 1-based a..b, "" when the range leaves the string
Slice(s, a, b) ==
    IF a >= 1 /\ a <= b /\ b <= Len(s) THEN SubSeq(s, a, b) ELSE <<>>

RECURSIVE WordRunEnd(_, _)
\* last position of the run of \w characters that starts at k (k - 1: none)
WordRunEnd(s, k) ==
    IF k <= Len(s) /\ IsWord(s[k]) THEN WordRunEnd(s, k + 1) ELSE k - 1

\* end of the second word of a match starting at k.  Both \w+ are greedy and
\* are followed by a blank, which is no \w, so each takes its whole run.
SecondWordEnd(s, k) == WordRunEnd(s, WordRunEnd(s, k) + 2)

\* the pattern matches at k, its words ending at e1 and e2
HolderMatchEnds(s, k, e1, e2) ==
    /\ e1 >= k
    /\ Char(s, e1 + 1) = Space
    /\ e2 >= e1 + 2
    /\ Slice(s, e2 + 1, e2 + 3) = HolderSeparator
    /\ e2 + 7 <= Len(s)
    /\ \A j \in (e2 + 4)..(e2 + 7) : IsDecimal(s[j])

HolderMatchAt(s, k) ==
    HolderMatchEnds(s, k, WordRunEnd(s, k), SecondWordEnd(s, k))

\* groups 1 and 2 of the match at k whose second word ends at e2
HolderGroups(s, k, e2) ==
    Some([name |-> SubSeq(s, k, e2),
          ending_card |-> SubSeq(s, e2 + 4, e2 + 7)])

Min(xs) == CHOOSE x \in xs : \A y \in xs : x <= y

\* ks: the positions where the pattern matches; re.search takes the leftmost
HolderLeftmost(s, ks) ==
    IF ks = {} THEN None
    ELSE HolderGroups(s, Min(ks), SecondWordEnd(s, Min(ks)))

\* re.search: None, or Some of the two groups
HolderSearch(s) == HolderLeftmost(s, {k \in 1..Len(s) : HolderMatchAt(s, k)})

(***************************************************************************)
(* RawStatement.parse_lines: the tests of its two loops                    *)
(***************************************************************************)
DETALLE == S("DETALLE DE OPERACIONES")
LIMITE == S("LIMITE MENSUAL")

\* line 50: parsed_lines[i][0].lstrip().startswith("DETALLE DE OPERACIONES")
SeekTest(line) == StartsWith(LStrip(line[1]), DETALLE)

\* line 54: line[0].startswith("LIMITE MENSUAL")
LimitTest(line) == StartsWith(line[1], LIMITE)

\* line 56: line[0].startswith("DETALLE DE OPERACIONES")
HolderTest(line) == StartsWith(line[1], DETALLE)

\* line 63: len(line) > 4 and line[1][2:3] == "-"
RowTest(line) == Len(line) > 4 /\ Char(line[2], 3) = Hyphen

Holder(name, ending_card, operations) ==
    [name |-> name, ending_card |-> ending_card, operations |-> operations]

\* lines 60-62: Holder(match.group(1), match.group(2), [])
NewHolder(groups) == Holder(groups.name, groups.ending_card, <<>>)

Statement(hs, cd) ==
    [kind |-> "Statement", holders |-> hs, creation_date |-> cd]

NoReturn == [kind |-> "none"]

RECURSIVE ChainPages(_)
\* lines 45-47: list(chain.from_iterable(get_page_lines(page) for page in pages))
ChainPages(ps) ==
    IF Len(ps) = 0 THEN <<>>
    ELSE get_page_lines(Head(ps)) \o ChainPages(Tail(ps))

\* the line the loops look at: parsed_lines[i]
CurLine == parsed_lines[i + 1]

\* line 57: match = re.search(r"(\w+ \w+) - (\d{4})", "|".join(line))
CurMatch == HolderSearch(Join(Pipe, CurLine))

\* line 65: parse_operation_line(line, self.creation_date)
CurOperation == parse_operation_line(CurLine, creation_date)

\* AppendOperation with holders[0] in place of holders[-1]
AppendOperationFirst(hs, op) ==
    [hs EXCEPT ![1].operations = Append(@, op)]

\* line 64-66: holders[-1].operations.append(op)
AppendOperation(hs, op) ==
    [hs EXCEPT ![Len(hs)].operations = Append(@, op)]

(***************************************************************************)
(* Inputs.                                                                 *)
(***************************************************************************)
\* Text lines of a statement page: holder headers (well formed, indented by
\* one blank, without a card number), the monthly-limit line, rows with and
\* without a country, a row with no amount, and page furniture.
HeaderAna == S("DETALLE DE OPERACIONES    ANA DIAZ - 1234")
HeaderIndented == S(" DETALLE DE OPERACIONES    LUIS RUIZ - 5678")
HeaderNoCard == S("DETALLE DE OPERACIONES    TITULAR")
LimitLine == S("LIMITE MENSUAL    5,000.00")
RowMarket == S("    15-12    MARKET    LIMA    ---    42.50")
RowPharmacy == S("    03-02    PHARMACY    150.00    ---")
RowNoAmount == S("    03-02    CAFE    ---    ---")
TotalLine == S("TOTAL    192.50")

SampleLines ==
    {HeaderAna, HeaderIndented, HeaderNoCard, LimitLine,
     RowMarket, RowPharmacy, RowNoAmount, TotalLine}

\* Lines with characters outside printable ASCII:
\* a header whose name has an N with tilde (U+00D1) and whose card number
\* is written in Arabic-Indic digits (U+0661 .. U+0664)
HeaderUnicode ==
    S("DETALLE DE OPERACIONES    JOSE PE") \o <<209>> \o S("A - ")
        \o <<1633, 1634, 1635, 1636>>
\* a header after a unit separator \x1f
HeaderAfterUnitSeparator == <<31>> \o HeaderAna
\* a row of 15 December in Arabic-Indic digits, its amount written 1_000.5
RowUnicode ==
    S("    ") \o <<1633, 1637>> \o S("-") \o <<1633, 1634>>
        \o S("    CAFE    1_000.5    ---")
\* a row whose month does not fit a C int
RowHugeMonth == S("    15-2147483648    CAFE    1e3    ---")
\* furniture and a header separated by a carriage return
TotalThenHeader == S("TOTAL") \o <<CR>> \o HeaderAna
\* a header and a row separated by \r\n
HeaderThenRow == HeaderAna \o <<CR, LF>> \o RowPharmacy

UnicodeLines ==
    {HeaderUnicode, HeaderAfterUnitSeparator, RowUnicode, RowHugeMonth,
     TotalThenHeader, HeaderThenRow, HeaderAna, RowPharmacy}

\* most lines of a document made of UnicodeLines
MaxUnicodeLines == 2

\* documents: up to MaxLines sample lines, or up to MaxUnicodeLines of the
\* lines with other characters
Documents ==
    UNION {[1..n -> SampleLines] : n \in 0..MaxLines}
        \cup UNION {[1..n -> UnicodeLines] : n \in 1..MaxUnicodeLines}

\* a document of ls lines cut into pages after its first k lines
Paginate(ls, k) ==
    IF Len(ls) = 0 THEN <<>>
    ELSE IF k = Len(ls) THEN <<Join(LF, ls)>>
    ELSE <<Join(LF, SubSeq(ls, 1, k)), Join(LF, SubSeq(ls, k + 1, Len(ls)))>>

\* a January document, so that the sample rows fall in both years
CreationDates == {[year |-> 2024, month |-> 1]}

\* rows given to parse_operation_line directly
RowDays == {1, 15, 29, 31}
RowMonths == 1..12
RowYears == {2024, 2025}

\* the digit zero of the scripts the date tokens are written in: ASCII and
\* Arabic-Indic
DigitZeros == {Zero, 1632}

\* the "dd-mm" text of a day and a month, in the digits that start at z
DateToken(z, d, m) ==
    <<z + (d \div 10), z + (d % 10), Hyphen, z + (m \div 10), z + (m % 10)>>

\* other date columns: no "-", a letter, digits grouped by "_", signs,
\* blanks around the numbers, a month that is or is not a C int, a "_"
\* that groups nothing, a vertical tab and a unit separator before the day
OtherDateTokens ==
    {S("1512"), S("15-1x"), S("1_5-0_6"), S("+15-+12"), S(" 15 - 12 "),
     S("15-2147483647"), S("15-2147483648"), S("2147483648-01"),
     S("-2147483649-01"), S("15-99999999999999999999"), S("15-1_"),
     S("15-1__2"), <<11>> \o S("15-12"), <<31>> \o S("15-12"),
     S("15-12-"), S("0015-012")}

\* the character c written n times
Repeat(c, n) == AsSeq([k \in 1..n |-> c])

\* day or month texts at the digit limit of int() and one digit beyond it:
\* months 11...1 and 00...012, a day 11...1
LongDateTokens ==
    {S("15-") \o Repeat(Zero + 1, MaxStrDigits),
     S("15-") \o Repeat(Zero + 1, MaxStrDigits + 1),
     S("15-") \o Repeat(Zero, MaxStrDigits - 2) \o S("12"),
     S("15-") \o Repeat(Zero, MaxStrDigits - 1) \o S("12"),
     Repeat(Zero + 1, MaxStrDigits + 1) \o S("-12")}

DateTokens ==
    {DateToken(z, d, m) : z \in DigitZeros, d \in RowDays, m \in RowMonths}
        \cup OtherDateTokens \cup LongDateTokens

\* amount columns: decimal numbers, the placeholder, a text that is neither
NumericTokens == {S("42.50"), S("1,500.00")}
NonNumericToken == S("12x")
PlainAmountTokens == NumericTokens \cup {Placeholder, NonNumericToken}

\* what else float() reads or refuses: exponents, "_" between digits,
\* inf and nan, Arabic-Indic digits (12.5), blanks it removes (\x0b)
\* and does not remove (\x1f), numbers too large and too small for a double
OtherAmountTokens ==
    {S("1e3"), S("1E-2"), S("1_000"), S("1__0"), S("nan"), S("-inf"),
     S("Infinity"), <<1633, 1634>> \o S(".") \o <<1637>>,
     <<11>> \o S("1.5"), <<31>> \o S("1.5"), S("1e309"), S("1e-400"),
     S("."), S("-.5"), S("1e"), S("0x10")}

AmountTokens == PlainAmountTokens \cup OtherAmountTokens

\* every date column with one amount, every pair of amount columns with a
\* December and a February date
DateRows ==
    {<<<<>>, dt, S("MARKET"), S("LIMA"), Placeholder, S("42.50")>> :
        dt \in DateTokens}
    \cup {<<<<>>, dt, S("PHARMACY"), S("150.00"), Placeholder>> :
        dt \in DateTokens}

AmountRows ==
    {<<<<>>, dt, S("MARKET"), S("LIMA"), a, b>> :
        dt \in {S("15-12"), S("03-02")}, a \in AmountTokens, b \in AmountTokens}
    \cup {<<<<>>, dt, S("PHARMACY"), a, b>> :
        dt \in {S("15-12"), S("03-02")}, a \in AmountTokens, b \in AmountTokens}

Rows ==
    DateRows \cup AmountRows
    \cup {<<<<>>, S("15-12"), S("MARKET"), S("42.50")>>,
          <<<<>>, S("15-12"), S("MARKET"), S("LIMA"), S("PE"), Placeholder,
            S("42.50")>>}

\* characters of the pages given to the tokenizer directly
TokChars == {Space, Ord("a"), Pipe, LF, CR}

TokPages == UNION {[1..n -> TokChars] : n \in 0..MaxLen}

(***************************************************************************)
(* RawStatement.parse_lines, one action per statement or loop iteration.   *)
(***************************************************************************)
Init ==
    /\ pc = "parse_lines"
    /\ \E ls \in Documents : \E k \in 0..Len(ls) : pages = Paginate(ls, k)
    /\ creation_date \in CreationDates
    /\ parsed_lines = <<>>
    /\ i = 0
    /\ holders = <<>>
    /\ row = <<>>
    /\ ret = NoReturn

\* lines 45-49
GetLines ==
    /\ pc = "parse_lines"
    /\ parsed_lines' = ChainPages(pages)
    /\ holders' = <<>>
    /\ i' = 0
    /\ pc' = "seek"
    /\ UNCHANGED <<pages, creation_date, row, ret>>

\* lines 50-51: the test holds, i += 1
SeekNext ==
    /\ pc = "seek"
    /\ i < Len(parsed_lines)
    /\ ~SeekTest(CurLine)
    /\ i' = i + 1
    /\ UNCHANGED <<pc, pages, creation_date, parsed_lines, holders, row, ret>>

\* line 50: parsed_lines[i] with i = len(parsed_lines)
SeekIndexError ==
    /\ pc = "seek"
    /\ i >= Len(parsed_lines)
    /\ pc' = "raised"
    /\ ret' = IndexError("list index out of range")
    /\ UNCHANGED <<pages, creation_date, parsed_lines, i, holders, row>>

\* line 50: the test fails, the first loop ends
SeekFound ==
    /\ pc = "seek"
    /\ i < Len(parsed_lines)
    /\ SeekTest(CurLine)
    /\ pc' = "scan"
    /\ UNCHANGED <<pages, creation_date, parsed_lines, i, holders, row, ret>>

\* ScanBreak going on to the next line instead of leaving the loop
ScanBreakContinues ==
    /\ pc = "scan"
    /\ i < Len(parsed_lines)
    /\ LimitTest(CurLine)
    /\ i' = i + 1
    /\ UNCHANGED <<pc, pages, creation_date, parsed_lines, holders, row, ret>>

\* lines 54-55 and 68: break, return
ScanBreak ==
    /\ pc = "scan"
    /\ i < Len(parsed_lines)
    /\ LimitTest(CurLine)
    /\ pc' = "done"
    /\ ret' = Statement(holders, creation_date)
    /\ UNCHANGED <<pages, creation_date, parsed_lines, i, holders, row>>

\* lines 52 and 68: the loop ends, return
ScanReturn ==
    /\ pc = "scan"
    /\ i >= Len(parsed_lines)
    /\ pc' = "done"
    /\ ret' = Statement(holders, creation_date)
    /\ UNCHANGED <<pages, creation_date, parsed_lines, i, holders, row>>

\* lines 56-62, 67
ScanHolder ==
    /\ pc = "scan"
    /\ i < Len(parsed_lines)
    /\ ~LimitTest(CurLine)
    /\ HolderTest(CurLine)
    /\ CurMatch # None
    /\ holders' = Append(holders, NewHolder(CurMatch[1]))
    /\ i' = i + 1
    /\ UNCHANGED <<pc, pages, creation_date, parsed_lines, row, ret>>

\* lines 56-59
ScanHolderInvalid ==
    /\ pc = "scan"
    /\ i < Len(parsed_lines)
    /\ ~LimitTest(CurLine)
    /\ HolderTest(CurLine)
    /\ CurMatch = None
    /\ pc' = "raised"
    /\ ret' = ValueError("Invalid holder line")
    /\ UNCHANGED <<pages, creation_date, parsed_lines, i, holders, row>>

\* lines 63-67
ScanRow ==
    /\ pc = "scan"
    /\ i < Len(parsed_lines)
    /\ ~LimitTest(CurLine)
    /\ ~HolderTest(CurLine)
    /\ RowTest(CurLine)
    /\ Len(holders) > 0
    /\ CurOperation.kind = "Operation"
    /\ holders' = AppendOperation(holders, CurOperation)
    /\ i' = i + 1
    /\ UNCHANGED <<pc, pages, creation_date, parsed_lines, row, ret>>

\* lines 63-66: parse_operation_line raises (ValueError or OverflowError)
ScanRowError ==
    /\ pc = "scan"
    /\ i < Len(parsed_lines)
    /\ ~LimitTest(CurLine)
    /\ ~HolderTest(CurLine)
    /\ RowTest(CurLine)
    /\ Len(holders) > 0
    /\ CurOperation.kind # "Operation"
    /\ ret' = CurOperation
    /\ pc' = "raised"
    /\ UNCHANGED <<pages, creation_date, parsed_lines, i, holders, row>>

\* line 64: holders[-1] of an empty list, evaluated before the row is decoded
ScanRowNoHolder ==
    /\ pc = "scan"
    /\ i < Len(parsed_lines)
    /\ ~LimitTest(CurLine)
    /\ ~HolderTest(CurLine)
    /\ RowTest(CurLine)
    /\ Len(holders) = 0
    /\ pc' = "raised"
    /\ ret' = IndexError("list index out of range")
    /\ UNCHANGED <<pages, creation_date, parsed_lines, i, holders, row>>

\* lines 63 and 67: neither test holds
ScanOther ==
    /\ pc = "scan"
    /\ i < Len(parsed_lines)
    /\ ~LimitTest(CurLine)
    /\ ~HolderTest(CurLine)
    /\ ~RowTest(CurLine)
    /\ i' = i + 1
    /\ UNCHANGED <<pc, pages, creation_date, parsed_lines, holders, row, ret>>

Next ==
    \/ GetLines
    \/ SeekNext
    \/ SeekIndexError
    \/ SeekFound
    \/ ScanBreak
    \/ ScanReturn
    \/ ScanHolder
    \/ ScanHolderInvalid
    \/ ScanRow
    \/ ScanRowError
    \/ ScanRowNoHolder
    \/ ScanOther

Spec == Init /\ [][Next]_vars

(***************************************************************************)
(* parse_operation_line called on one row.                                 *)
(***************************************************************************)
RowInit ==
    /\ pc = "decode"
    /\ row \in Rows
    /\ creation_date \in [year : RowYears, month : 1..12]
    /\ pages = <<>>
    /\ parsed_lines = <<>>
    /\ i = 0
    /\ holders = <<>>
    /\ ret = NoReturn

ParseOperationLine ==
    /\ pc = "decode"
    /\ ret' = parse_operation_line(row, creation_date)
    /\ pc' = "decoded"
    /\ UNCHANGED <<pages, creation_date, parsed_lines, i, holders, row>>

RowNext == ParseOperationLine

SpecRow == RowInit /\ [][RowNext]_vars

(***************************************************************************)
(* get_page_lines called on one page.                                      *)
(***************************************************************************)
TokInit ==
    /\ pc = "tokenize"
    /\ \E p \in TokPages : pages = <<p>>
    /\ creation_date = [year |-> 2024, month |-> 1]
    /\ parsed_lines = <<>>
    /\ i = 0
    /\ holders = <<>>
    /\ row = <<>>
    /\ ret = NoReturn

GetPageLines ==
    /\ pc = "tokenize"
    /\ parsed_lines' = get_page_lines(pages[1])
    /\ pc' = "tokenized"
    /\ UNCHANGED <<pages, creation_date, i, holders, row, ret>>

TokNext == GetPageLines

SpecTok == TokInit /\ [][TokNext]_vars

(***************************************************************************)
(* The line classes of the specification (4.2), used to state the claims.  *)
(***************************************************************************)
IsHolderHeader(line) ==
    StartsWith(LStrip(line[1]), DETALLE)

IsSectionEnd(line) ==
    ~IsHolderHeader(line) /\ StartsWith(line[1], LIMITE)

IsTransactionRow(line) ==
    /\ ~IsHolderHeader(line)
    /\ ~IsSectionEnd(line)
    /\ Len(line) > 4
    /\ Len(line[2]) >= 3
    /\ line[2][3] = Hyphen

\* line k of the stream comes while the assembler is Seeking: no line before
\* it is a HolderHeader or a SectionEnd
WhileSeeking(k) ==
    \A j \in 1..(k - 1) :
        ~IsHolderHeader(parsed_lines[j]) /\ ~IsSectionEnd(parsed_lines[j])

Terminated == pc \in {"done", "raised"}

(***************************************************************************)
(* Claims.                                                                 *)
(***************************************************************************)
\* the two amount columns of a 5- or 6-token row
AmountColumns(r) == <<r[Len(r) - 1], r[Len(r)]>>

ExactlyOnePopulated(r) ==
    \/ AmountColumns(r)[1] \in NumericTokens /\ AmountColumns(r)[2] = Placeholder
    \/ AmountColumns(r)[1] = Placeholder /\ AmountColumns(r)[2] \in NumericTokens

\* C1: decoding a 5- or 6-token row whose amount columns are not "exactly one
\* numeric, the other the placeholder" (both numeric, both "---", or a text
\* that is neither) fails with a decode error and produces no Operation.
\* Stated for amount columns that are plain decimal numbers, the placeholder
\* or a text with a letter.
C1_AmbiguousAmountRejected ==
    (/\ pc = "decoded"
     /\ Len(row) \in {5, 6}
     /\ AmountColumns(row)[1] \in PlainAmountTokens
     /\ AmountColumns(row)[2] \in PlainAmountTokens
     /\ ~ExactlyOnePopulated(row))
        => ret.kind = "ValueError"

\* a TransactionRow line met while Seeking
RowWhileSeeking ==
    \E k \in 1..Len(parsed_lines) :
        IsTransactionRow(parsed_lines[k]) /\ WhileSeeking(k)

C3_SectionEndStopsAssembly ==
    [][/\ (/\ pc = "scan"
           /\ i < Len(parsed_lines)
           /\ StartsWith(CurLine[1], LIMITE)
           /\ Len(holders) >= 1)
          => (/\ pc' = "done"
              /\ ret' = [kind |-> "Statement", holders |-> holders,
                         creation_date |-> creation_date]
              /\ i' = i)
       /\ pc = "done" => UNCHANGED vars]_vars

\* the call returned at a monthly-limit line that is followed by a header or a
\* date-shaped row
C3_Witness ==
    /\ pc = "done"
    /\ i < Len(parsed_lines)
    /\ StartsWith(parsed_lines[i + 1][1], LIMITE)
    /\ Len(ret.holders) >= 1
    /\ \E k \in (i + 2)..Len(parsed_lines) :
           IsHolderHeader(parsed_lines[k]) \/ RowTest(parsed_lines[k])

\* C4: when the lines are exhausted while still Seeking (no HolderHeader and
\* no SectionEnd line, or no line at all), the call returns, without error, a
\* Statement with no holders.
C4_SeekingExhaustedReturnsEmpty ==
    (Terminated /\ WhileSeeking(Len(parsed_lines) + 1))
        => (ret.kind = "Statement" /\ ret.holders = <<>>)

\* the year the specification gives a row of month m
ResolvedYear(m) ==
    IF creation_date.month = 1 /\ m \in {11, 12}
    THEN creation_date.year - 1
    ELSE creation_date.year

\* C5: the date of a decoded row has the day and the month of its "dd-mm"
\* token; its year is the creation year minus 1 when the creation month is
\* January and the row month is 11 or 12, the creation year otherwise, for
\* 5-token and 6-token rows alike.
C5_DateResolution ==
    \A z \in DigitZeros, d \in RowDays, m \in RowMonths :
        (pc = "decoded" /\ ret.kind = "Operation" /\ row[2] = DateToken(z, d, m))
            => ret.date = [year |-> ResolvedYear(m), month |-> m, day |-> d]

\* a 5-token November row of a January document, dated the year before
C5_Witness ==
    /\ pc = "decoded"
    /\ ret.kind = "Operation"
    /\ Len(row) = 5
    /\ row[2] = DateToken(Zero, 15, 11)
    /\ creation_date.month = 1
    /\ ret.date.month = 11
    /\ ret.date.year = creation_date.year - 1

\* C6: a decoded row's description is token 2; its country is token 3 when the
\* row has 6 tokens and is absent when it has 5.
C6_CountryByShape ==
    (pc = "decoded" /\ ret.kind = "Operation")
        => /\ ret.description = row[3]
           /\ Len(row) = 6 => ret.country = <<row[4]>>
           /\ Len(row) = 5 => ret.country = <<>>

Lima == S("LIMA")
Market == S("MARKET")

\* a decoded 6-token row with its country
C6_Witness ==
    /\ pc = "decoded"
    /\ ret.kind = "Operation"
    /\ Len(row) = 6
    /\ row[4] = Lima
    /\ ret.country = <<Lima>>
    /\ ret.description = Market

FourSpaces == S("    ")

\* the maximal runs of 4 or more blanks of a line, by their first positions
SeparatorRuns(line) ==
    {p \in 1..Len(line) :
        /\ p + 3 <= Len(line)
        /\ SubSeq(line, p, p + 3) = FourSpaces
        /\ (p = 1 \/ line[p - 1] # Space)}

\* C7: the tokenizer splits a line exactly at its maximal runs of 4 or more
\* blanks: every line yields one field more than it has such runs, and no
\* other character separates fields.
C7_SplitOnlyAtSpaceRuns ==
    pc = "tokenized"
        => \A k \in 1..Len(parsed_lines) :
              Len(parsed_lines[k])
                  = 1 + Cardinality(SeparatorRuns(SplitLines(pages[1])[k]))

\* C8: every line met by the second loop whose left-stripped token 0 starts
\* with "DETALLE DE OPERACIONES" (and that carries a name and a card number)
\* opens a new holder: once the loop is past it, that holder is the last one
\* of the statement and has no operation yet.
C8_HeaderOpensHolder ==
    (/\ pc = "scan"
     /\ i >= 1
     /\ IsHolderHeader(parsed_lines[i])
     /\ HolderSearch(Join(Pipe, parsed_lines[i])) # None)
        => /\ Len(holders) >= 1
           /\ holders[Len(holders)] =
                  [name |->
                       HolderSearch(Join(Pipe, parsed_lines[i]))[1].name,
                   ending_card |->
                       HolderSearch(Join(Pipe, parsed_lines[i]))[1].ending_card,
                   operations |-> <<>>]

\* a SectionEnd line met while Seeking
SectionEndWhileSeeking ==
    \E k \in 1..Len(parsed_lines) :
        IsSectionEnd(parsed_lines[k]) /\ WhileSeeking(k)

\* C9: a SectionEnd line met while Seeking closes the assembler, so the
\* returned Statement has no holders.
C9_SectionEndWhileSeekingCloses ==
    (pc = "done" /\ SectionEndWhileSeeking) => ret.holders = <<>>

\* hs2 is hs1 with one operation more, the last of the last holder: the
\* Operation that parse_operation_line decodes from the line the loop is at.
\* Every holder before the last, and the name, the card and the earlier
\* operations of the last, are as they were.
AppendedToLast(hs1, hs2) ==
    /\ Len(hs1) >= 1
    /\ Len(hs2) = Len(hs1)
    /\ \A k \in 1..(Len(hs1) - 1) : hs2[k] = hs1[k]
    /\ hs2[Len(hs1)].name = hs1[Len(hs1)].name
    /\ hs2[Len(hs1)].ending_card = hs1[Len(hs1)].ending_card
    /\ Len(hs2[Len(hs1)].operations) = Len(hs1[Len(hs1)].operations) + 1
    /\ SubSeq(hs2[Len(hs1)].operations, 1, Len(hs1[Len(hs1)].operations))
           = hs1[Len(hs1)].operations
    /\ parse_operation_line(CurLine, creation_date).kind = "Operation"
    /\ hs2[Len(hs1)].operations[Len(hs2[Len(hs1)].operations)]
           = parse_operation_line(CurLine, creation_date)

\* hs2 is hs1 with one new, empty holder at its end
OpenedHolder(hs1, hs2) ==
    /\ Len(hs2) = Len(hs1) + 1
    /\ SubSeq(hs2, 1, Len(hs1)) = hs1
    /\ hs2[Len(hs2)].operations = <<>>

\* the loop is at a row that decodes, with a holder open
AtDecodedRow ==
    /\ pc = "scan"
    /\ i < Len(parsed_lines)
    /\ ~StartsWith(CurLine[1], LIMITE)
    /\ ~StartsWith(CurLine[1], DETALLE)
    /\ RowTest(CurLine)
    /\ Len(holders) >= 1
    /\ parse_operation_line(CurLine, creation_date).kind = "Operation"

\* C10: every step of parse_lines leaves the stored holders and operations as
\* they are, or opens a new empty holder at the end, or appends the operation
\* decoded from the current row at the end of the last holder's operations
\* and nowhere else; a row that decodes is appended, once; the returned
\* Statement holds the holders so built.
C10_DocumentOrder ==
    [][/\ \/ holders' = holders
          \/ OpenedHolder(holders, holders')
          \/ (RowTest(CurLine) /\ i' = i + 1
                /\ AppendedToLast(holders, holders'))
       /\ AtDecodedRow => (i' = i + 1 /\ AppendedToLast(holders, holders'))
       /\ pc' = "done" => ret'.holders = holders]_vars

\* two holders, the row that followed the second header stored in the second
C10_Witness ==
    /\ pc = "done"
    /\ Len(ret.holders) = 2
    /\ ret.holders[1].operations = <<>>
    /\ Len(ret.holders[2].operations) = 1
    /\ ret.holders[2].operations[1].description = Market

====
